---- MODULE Spec2Model ----
(***************************************************************************)
(* Model of inflammation/models.py: the statistics functions               *)
(* patient_normalise and daily_above_threshold over a patients-by-days     *)
(* matrix, and the record model Patient.add_observation and                *)
(* Doctor.add_patient.                                                     *)
(*                                                                         *)
(* Python objects live in heaps (sequences indexed by object identity):    *)
(* `arrays` holds the objects passed to and returned by the statistics     *)
(* functions, `people` holds the Patient instances.  Every call is one     *)
(* action; it records the call, the state before it and its outcome.       *)
(***************************************************************************)
EXTENDS Integers, Sequences, FiniteSets

VARIABLES arrays, people, doctor, call, old, outcome

vars == <<arrays, people, doctor, call, old, outcome>>

(***************************************************************************)
(* Bounds of the model.                                                    *)
(***************************************************************************)
\* A matrix has at most MaxCells entries (and at most MaxCells rows/columns).
MaxCells == 4
\* Patient instances created in one behaviour of the Doctor specification.
MaxObjects == 3
\* Observations added to the Patient of the Patient specification.
MaxObs == 3
\* Explicit days are drawn from 0..MaxDay.
MaxDay == 2

(***************************************************************************)
(* IEEE-754 doubles: finite rationals n/d (d > 0, lowest terms), NaN and   *)
(* the two infinities (n is the sign).                                     *)
(***************************************************************************)
RECURSIVE GCD(_, _)
GCD(a, b) == IF b = 0 THEN a ELSE GCD(b, a % b)

Abs(i) == IF i < 0 THEN -i ELSE i

Fin(n, d) ==
  LET s == IF d < 0 THEN -1 ELSE 1
      g == GCD(Abs(n), Abs(d))
  IN [k |-> "fin", n |-> (s * n) \div g, d |-> (s * d) \div g]

F(i) == [k |-> "fin", n |-> i, d |-> 1]
NaN == [k |-> "nan", n |-> 0, d |-> 1]
Inf == [k |-> "inf", n |-> 1, d |-> 1]
NegInf == [k |-> "inf", n |-> -1, d |-> 1]
Zero == F(0)

isnan(x) == x.k = "nan"

\* x < y on doubles: any comparison with NaN is False.
Lt(x, y) ==
  IF isnan(x) \/ isnan(y) THEN FALSE
  ELSE IF x.k = "inf" THEN x.n < 0 /\ y # NegInf
  ELSE IF y.k = "inf" THEN y.n > 0
  ELSE x.n * y.d < y.n * x.d

\* x > y on doubles.
Gt(x, y) == Lt(y, x)

\* x / m on doubles with the floating-point errors ignored
\* (np.errstate(invalid='ignore', divide='ignore')).
TrueDivide(x, m) ==
  IF isnan(x) \/ isnan(m) THEN NaN
  ELSE IF x.k = "inf" THEN
    IF m.k = "inf" THEN NaN
    ELSE IF x.n * (IF m.n < 0 THEN -1 ELSE 1) > 0 THEN Inf ELSE NegInf
  ELSE IF m.k = "inf" THEN Zero
  ELSE IF m.n = 0 THEN
    IF x.n = 0 THEN NaN ELSE IF x.n > 0 THEN Inf ELSE NegInf
  ELSE Fin(x.n * m.d, x.d * m.n)

\* np.fmax(x, y): the larger one, a NaN only when both are.
fmax(x, y) ==
  IF isnan(x) THEN y
  ELSE IF isnan(y) THEN x
  ELSE IF Lt(x, y) THEN y ELSE x

\* np.fmax.reduce over one non-empty row.
RECURSIVE fmax_reduce(_)
fmax_reduce(row) ==
  IF Len(row) = 1 THEN row[1]
  ELSE fmax(fmax_reduce(SubSeq(row, 1, Len(row) - 1)), row[Len(row)])

(***************************************************************************)
(* The objects a caller can pass as `data`.                                *)
(***************************************************************************)
\* The values of an entry.
Vals == {F(-1), F(0), F(1), F(2), NaN, Inf}

Shapes == {s \in (0..MaxCells) \X (0..MaxCells) : s[1] * s[2] <= MaxCells}

Rows(s) == [1..s[1] -> [1..s[2] -> Vals]]

\* A NumPy 2-D array of shape (nrows, ncols).
NdArray(ncols, rows) == [type |-> "ndarray", ncols |-> ncols, rows |-> rows]
\* A Python list of row lists.
PyList(ncols, rows) == [type |-> "list", ncols |-> ncols, rows |-> rows]
\* A Python float.
PyFloat(v) == [type |-> "float", ncols |-> 0, rows |-> <<<<v>>>>]

NdArrays == UNION {{NdArray(s[2], r) : r \in Rows(s)} : s \in Shapes}
PyLists ==
  UNION {{PyList(s[2], r) : r \in Rows(s)} :
         s \in {t \in Shapes : t[1] = 0 => t[2] = 0}}
PyFloats == {PyFloat(v) : v \in Vals}

nrows(m) == Len(m.rows)

(***************************************************************************)
(* Outcomes of a call: a return value (in a one-element sequence, None is  *)
(* the empty sequence) or a raised exception.                              *)
(***************************************************************************)
Return(v) == [raised |-> "none", ret |-> <<v>>, printed |-> FALSE]
ReturnNone == [raised |-> "none", ret |-> <<>>, printed |-> FALSE]
Raise(e) == [raised |-> e, ret |-> <<>>, printed |-> FALSE]
NoCall == [fn |-> "none"]

(***************************************************************************)
(* patient_normalise                                                       *)
(***************************************************************************)
\* Mutant of any_negative: np.all in place of np.any.
all_negative(a) ==
  \A i \in 1..nrows(a) : \A j \in 1..Len(a.rows[i]) : Lt(a.rows[i][j], Zero)

\* np.any(data < 0) on an object whose entries compare with 0.
any_negative(a) ==
  \E i \in 1..nrows(a) : \E j \in 1..Len(a.rows[i]) : Lt(a.rows[i][j], Zero)

\* np.nanmax(data, axis=1): per row, the maximum over the entries that are not
\* NaN (NaN for a row of NaNs only).  Defined for ncols > 0.
nanmax(a) == [i \in 1..nrows(a) |-> fmax_reduce(a.rows[i])]

\* Mutant of true_divide: data /= max_val[:, np.newaxis], the division done in
\* place and the input returned.
true_divide_inplace(heap, data, max_val) ==
  LET a == heap[data]
      q == NdArray(a.ncols,
                   [i \in 1..nrows(a) |->
                      [j \in 1..a.ncols |-> TrueDivide(a.rows[i][j], max_val[i])]])
  IN [heap |-> [heap EXCEPT ![data] = q], ref |-> data]

\* data / max_val[:, np.newaxis]: a new array, row i divided by max_val[i].
true_divide(heap, data, max_val) ==
  LET a == heap[data]
      q == NdArray(a.ncols,
                   [i \in 1..nrows(a) |->
                      [j \in 1..a.ncols |-> TrueDivide(a.rows[i][j], max_val[i])]])
  IN [heap |-> Append(heap, q), ref |-> Len(heap) + 1]

\* np.isnan(a): the boolean array of the entries that are NaN.
isnan_mask(a) ==
  [i \in 1..nrows(a) |-> [j \in 1..a.ncols |-> isnan(a.rows[i][j])]]

\* a < 0: the boolean array of the entries that are negative.
negative_mask(a) ==
  [i \in 1..nrows(a) |-> [j \in 1..a.ncols |-> Lt(a.rows[i][j], Zero)]]

\* normalised[mask] = v: writes v into the array object `ref` where the
\* boolean array `mask` is True.
setitem(heap, ref, mask, v) ==
  LET a == heap[ref]
  IN [heap EXCEPT ![ref] =
        NdArray(a.ncols,
                [i \in 1..nrows(a) |->
                   [j \in 1..a.ncols |->
                      IF mask[i][j] THEN v ELSE a.rows[i][j]]])]

\* Mutant of repair_nan: the NaN results are left in place.
repair_nan_skipped(heap, ref) == heap

\* normalised[np.isnan(normalised)] = 0
repair_nan(heap, ref) == setitem(heap, ref, isnan_mask(heap[ref]), Zero)

\* normalised[normalised < 0] = 0
clamp_negative(heap, ref) == setitem(heap, ref, negative_mask(heap[ref]), Zero)

patient_normalise(heap, data) ==
  LET a == heap[data]
  IN IF a.type = "list"
     THEN \* data < 0: '<' not supported between 'list' and 'int'
          [heap |-> heap, outcome |-> Raise("TypeError")]
     ELSE IF any_negative(a)
     THEN [heap |-> heap, outcome |-> Raise("ValueError")]
     ELSE IF a.type # "ndarray"
     THEN [heap |-> heap, outcome |-> Raise("TypeError")]
     ELSE IF a.ncols = 0
     THEN \* zero-size array to reduction operation fmax which has no identity
          [heap |-> heap, outcome |-> Raise("ValueError")]
     ELSE LET d == true_divide(heap, data, nanmax(a))
              h1 == repair_nan(d.heap, d.ref)
              h2 == clamp_negative(h1, d.ref)
          IN [heap |-> h2, outcome |-> Return(d.ref)]

(***************************************************************************)
(* daily_above_threshold                                                   *)
(***************************************************************************)
\* Mutant of getitem: every negative index is out of range.
getitem_nowrap(n, patient_nr) ==
  IF 0 <= patient_nr /\ patient_nr < n THEN patient_nr + 1 ELSE 0

\* data[patient_nr] on an ndarray or a list: a negative index counts from the
\* end; the result is the 1-based position of the row, 0 for an IndexError.
getitem(n, patient_nr) ==
  IF 0 <= patient_nr /\ patient_nr < n THEN patient_nr + 1
  ELSE IF -n <= patient_nr /\ patient_nr < 0 THEN n + patient_nr + 1
  ELSE 0

\* reduce(lambda x, y: x + y, int_bools) on a non-empty list.
RECURSIVE reduce_add(_)
reduce_add(xs) ==
  IF Len(xs) = 1 THEN xs[1]
  ELSE reduce_add(SubSeq(xs, 1, Len(xs) - 1)) + xs[Len(xs)]

daily_above_threshold(heap, data, patient_nr, threshold) ==
  LET a == heap[data]
      at == getitem(nrows(a), patient_nr)
  IN IF a.type = "float"
     THEN \* 'float' object is not subscriptable
          Raise("TypeError")
     ELSE IF at = 0
     THEN Raise("IndexError")
     ELSE LET row == a.rows[at]
              bools == [d \in 1..Len(row) |-> Gt(row[d], threshold)]
              int_bools == [d \in 1..Len(row) |-> IF bools[d] THEN 1 ELSE 0]
          IN IF Len(int_bools) = 0
             THEN \* reduce() of empty iterable with no initial value
                  Raise("TypeError")
             ELSE Return(reduce_add(int_bools))

(***************************************************************************)
(* Observation, Patient, Doctor                                            *)
(***************************************************************************)
Names == {"Alice", "Bob"}
Values == {3, 7}

Observation(day, value) == [day |-> day, value |-> value]

Patient(name) == [name |-> name, observations |-> <<>>]

Doctor(name) == [name |-> name, patients |-> <<>>]

RECURSIVE MaxDayOf(_)
MaxDayOf(observations) ==
  IF Len(observations) = 1 THEN observations[1].day
  ELSE LET m == MaxDayOf(SubSeq(observations, 1, Len(observations) - 1))
           d == observations[Len(observations)].day
       IN IF d > m THEN d ELSE m

\* Mutant of add_observation: the default day follows the largest day.
add_observation_after_max(heap, self, value, day) ==
  LET observations == heap[self].observations
      d == IF day = <<>>
           THEN IF Len(observations) > 0 THEN MaxDayOf(observations) + 1 ELSE 0
           ELSE day[1]
      new_observation == Observation(d, value)
  IN [heap |-> [heap EXCEPT ![self].observations = Append(@, new_observation)],
      outcome |-> Return(new_observation)]

\* Patient.add_observation(self, value, day): `day` is <<>> for None (the
\* default) and <<d>> for an explicit day d.
add_observation(heap, self, value, day) ==
  LET observations == heap[self].observations
      d == IF day = <<>>
           THEN IF Len(observations) > 0
                THEN observations[Len(observations)].day + 1
                ELSE 0  \* except IndexError
           ELSE day[1]
      new_observation == Observation(d, value)
  IN [heap |-> [heap EXCEPT ![self].observations = Append(@, new_observation)],
      outcome |-> Return(new_observation)]

\* The arguments of Doctor.add_patient: a Patient instance or a bare name.
Instance(ref) == [type |-> "Patient", ref |-> ref, str |-> ""]
Name(str) == [type |-> "str", ref |-> 0, str |-> str]

\* Mutant of eq: Patients compared by name.
eq_by_name(heap, a, b) == heap[a].name = heap[b].name

\* a == b for two Patients: Patient defines no __eq__, so object identity.
eq(heap, a, b) == a = b

\* Mutant of contains: only the patient added last is compared.
contains_last(heap, xs, x) == Len(xs) > 0 /\ eq(heap, xs[Len(xs)], x)

\* x in xs: some element of xs equals x.
contains(heap, xs, x) == \E i \in 1..Len(xs) : eq(heap, xs[i], x)

\* Doctor.add_patient(self, patient)
add_patient(heap, self, patient) ==
  LET isinstance == patient.type = "Patient"
      heap1 == IF isinstance THEN heap ELSE Append(heap, Patient(patient.str))
      new_patient == IF isinstance THEN patient.ref ELSE Len(heap) + 1
  IN IF ~contains(heap1, self.patients, new_patient)
     THEN [heap |-> heap1,
           self |-> [self EXCEPT !.patients = Append(@, new_patient)],
           outcome |-> Return(new_patient)]
     ELSE \* print('Patient with name ... already in Doctor ...'s list.')
          [heap |-> heap1,
           self |-> self,
           outcome |-> [raised |-> "none", ret |-> <<>>, printed |-> TRUE]]

(***************************************************************************)
(* State before a call.                                                    *)
(***************************************************************************)
Snapshot == [arrays |-> arrays, people |-> people, doctor |-> doctor]

(***************************************************************************)
(* The statistics specification: the caller holds one object `data` (the   *)
(* object 1 of the heap) and makes one call on it.                         *)
(***************************************************************************)
Thresholds == {F(0), F(1), F(2), NaN}

InitStats ==
  /\ \/ \E a \in NdArrays : arrays = <<a>>
     \/ \E a \in PyLists : arrays = <<a>>
     \/ \E a \in PyFloats : arrays = <<a>>
  /\ people = <<>>
  /\ doctor = Doctor("Dr")
  /\ call = NoCall
  /\ old = Snapshot
  /\ outcome = ReturnNone

CallNormalise ==
  /\ call = NoCall
  /\ LET r == patient_normalise(arrays, 1)
     IN /\ arrays' = r.heap
        /\ outcome' = r.outcome
  /\ call' = [fn |-> "patient_normalise", data |-> 1]
  /\ old' = Snapshot
  /\ UNCHANGED <<people, doctor>>

CallThreshold ==
  /\ call = NoCall
  /\ \E patient_nr \in (-(nrows(arrays[1]) + 1))..(nrows(arrays[1]) + 1) :
       \E threshold \in Thresholds :
         /\ outcome' = daily_above_threshold(arrays, 1, patient_nr, threshold)
         /\ call' = [fn |-> "daily_above_threshold", data |-> 1,
                     patient_nr |-> patient_nr, threshold |-> threshold]
  /\ old' = Snapshot
  /\ UNCHANGED <<arrays, people, doctor>>

NextStats == CallNormalise \/ CallThreshold

SpecStats == InitStats /\ [][NextStats]_vars

(***************************************************************************)
(* Properties of patient_normalise (checked under SpecStats).              *)
(***************************************************************************)
\* The object passed as `data`, as it was before the call.
Given == old.arrays[1]

Normalised == call.fn = "patient_normalise"

\* m holds an entry < 0 (a negative number or minus infinity).
HasNegativeEntry(m) ==
  \E i \in 1..nrows(m) : \E j \in 1..Len(m.rows[i]) :
    m.rows[i][j].k # "nan" /\ m.rows[i][j].n < 0

\* 0 <= e <= 1
InUnitRange(e) == e.k = "fin" /\ 0 <= e.n /\ e.n <= e.d

\* The maximum of the row over its defined entries is positive and finite.
RowMaxPositiveFinite(row) ==
  /\ \E j \in 1..Len(row) : row[j].k = "fin" /\ row[j].n > 0
  /\ \A j \in 1..Len(row) : row[j].k # "inf"

\* The row has entries, and they are all 0 or all NaN.
RowAllZeroOrAllNaN(row) ==
  /\ Len(row) > 0
  /\ \/ \A j \in 1..Len(row) : row[j] = Zero
     \/ \A j \in 1..Len(row) : row[j] = NaN

C2_SameShapeAndUnitRange ==
  (Normalised /\ Given.type = "ndarray" /\ ~HasNegativeEntry(Given))
    => /\ outcome.raised = "none"
       /\ Len(outcome.ret) = 1
       /\ LET result == arrays[outcome.ret[1]]
          IN /\ nrows(result) = nrows(Given)
             /\ result.ncols = Given.ncols
             /\ \A i \in 1..nrows(Given) :
                  /\ Len(result.rows[i]) = Given.ncols
                  /\ RowMaxPositiveFinite(Given.rows[i])
                       => \A j \in 1..Given.ncols : InUnitRange(result.rows[i][j])

\* C2 holds of every ndarray that has at least one column: the zero-column
\* arrays are the only ones on which it fails.
C2_HoldsWithColumns == Given.ncols > 0 => C2_SameShapeAndUnitRange

\* The case of C2_HoldsWithColumns: a row with a NaN and two different
\* positive values, normalised to 0, 1/2 and 1.
C2_HoldsWithColumns_Witness ==
  /\ Normalised /\ Given.type = "ndarray"
  /\ Given.rows = <<<<NaN, F(1), F(2)>>>>
  /\ outcome.raised = "none"
  /\ arrays[outcome.ret[1]].rows = <<<<Zero, Fin(1, 2), F(1)>>>>

\* C3: in the result of patient_normalise on an ndarray without negative
\* entries, every row that was all zeros or all NaN is all zeros, and the call
\* raises nothing.
C3_DegenerateRowsBecomeZero ==
  (Normalised /\ Given.type = "ndarray" /\ ~HasNegativeEntry(Given))
    => \A i \in 1..nrows(Given) :
         RowAllZeroOrAllNaN(Given.rows[i])
           => /\ outcome.raised = "none"
              /\ Len(outcome.ret) = 1
              /\ arrays[outcome.ret[1]].rows[i] = [j \in 1..Given.ncols |-> Zero]

\* C3 witness: an all-NaN row and an all-zero row beside a row with a positive
\* maximum; both come out as zeros, the third row does not.
C3_Witness ==
  /\ Normalised /\ Given.type = "ndarray"
  /\ Given.rows = <<<<NaN>>, <<Zero>>, <<F(2)>>>>
  /\ outcome.raised = "none"
  /\ arrays[outcome.ret[1]].rows = <<<<Zero>>, <<Zero>>, <<F(1)>>>>

\* C4: whatever patient_normalise is given and whether it returns or raises,
\* the object passed in is afterwards what it was before, and a returned array
\* is another object than the input.
C4_InputNotMutated ==
  Normalised
    => /\ arrays[call.data] = Given
       /\ outcome.raised = "none"
            => Len(outcome.ret) = 1 /\ outcome.ret[1] # call.data

\* C4 witness: a call that returned an array in which a NaN was repaired and a
\* value was rescaled, so the result differs from the input.
C4_Witness ==
  /\ Normalised /\ outcome.raised = "none"
  /\ Given.rows = <<<<NaN, F(1)>>, <<F(1), F(2)>>>>
  /\ arrays[outcome.ret[1]].rows = <<<<Zero, F(1)>>, <<Fin(1, 2), F(1)>>>>
  /\ arrays[call.data] = Given

\* C9: given anything that is not an ndarray, patient_normalise raises
\* TypeError (never ValueError, and it never returns).
C9_NonArrayRaisesTypeError ==
  (Normalised /\ Given.type # "ndarray") => outcome = Raise("TypeError")

\* C9 holds of the lists: the comparison data < 0 itself raises TypeError.
C9_ListRaisesTypeError ==
  (Normalised /\ Given.type = "list") => outcome = Raise("TypeError")

(***************************************************************************)
(* Properties of daily_above_threshold (checked under SpecStats).          *)
(***************************************************************************)
Counted == call.fn = "daily_above_threshold"

\* A matrix: an ndarray or a list of row lists.
IsMatrix(m) == m.type \in {"ndarray", "list"}

\* The number of columns d of row p (0-based) with matrix[p][d] > t.
DaysAbove(m, p, t) ==
  Cardinality({d \in 1..Len(m.rows[p + 1]) : Gt(m.rows[p + 1][d], t)})

\* C7: for a matrix of any number of columns and a row index p in 0..R-1,
\* daily_above_threshold returns the number of columns whose value is strictly
\* greater than the threshold.
C7_CountsStrictlyGreater ==
  (Counted /\ IsMatrix(Given)
      /\ 0 <= call.patient_nr /\ call.patient_nr < nrows(Given))
    => outcome = Return(DaysAbove(Given, call.patient_nr, call.threshold))

\* C7 holds of every matrix that has at least one column: the rows without
\* columns are the only ones on which it fails.
C7_HoldsWithColumns == (Counted /\ Given.ncols > 0) => C7_CountsStrictlyGreater

\* The case of C7_HoldsWithColumns: a value equal to the threshold, one above
\* and one below it; one day is counted.
C7_HoldsWithColumns_Witness ==
  /\ Counted /\ Given.type = "ndarray"
  /\ Given.rows = <<<<F(1), F(2), F(0)>>>>
  /\ call.patient_nr = 0 /\ call.threshold = F(1)
  /\ outcome = Return(1)

\* C8 as stated: every index outside 0..R-1, the negative ones included,
\* makes daily_above_threshold raise IndexError.  It is stated of the matrices
\* that have day columns, on which counting a row cannot itself fail, so that
\* a violation is the index being accepted and a count returned.
C8_OutsideZeroToRRaises ==
  (Counted /\ IsMatrix(Given) /\ Given.ncols > 0
      /\ ~(0 <= call.patient_nr /\ call.patient_nr < nrows(Given)))
    => outcome = Raise("IndexError")

\* C8 amended: an index >= R or < -R makes daily_above_threshold raise
\* IndexError and return nothing; an index in -R..-1 raises no IndexError and
\* gives what the index R + patient_index gives.
C8_BeyondBothEndsRaises ==
  (Counted /\ IsMatrix(Given))
    => LET R == nrows(Given)
           p == call.patient_nr
       IN /\ (p >= R \/ p < -R) => outcome = Raise("IndexError")
          /\ (-R <= p /\ p < 0)
               => /\ outcome.raised # "IndexError"
                  /\ outcome =
                       daily_above_threshold(old.arrays, 1, R + p, call.threshold)

\* C8 witness: a negative index below -R on a matrix with rows raised
\* IndexError.
C8_Witness ==
  /\ Counted /\ Given.type = "ndarray"
  /\ nrows(Given) = 2 /\ Given.ncols = 2
  /\ call.patient_nr = -3
  /\ outcome = Raise("IndexError")

(***************************************************************************)
(* The Patient specification: one Patient and its add_observation calls.   *)
(***************************************************************************)
Days == {<<>>} \cup {<<d>> : d \in 0..MaxDay}

InitPatient ==
  /\ arrays = <<>>
  /\ \E name \in Names : people = <<Patient(name)>>
  /\ doctor = Doctor("Dr")
  /\ call = NoCall
  /\ old = Snapshot
  /\ outcome = ReturnNone

AddObservation ==
  /\ Len(people[1].observations) < MaxObs
  /\ \E value \in Values : \E day \in Days :
       LET r == add_observation(people, 1, value, day)
       IN /\ people' = r.heap
          /\ outcome' = r.outcome
          /\ call' = [fn |-> "add_observation", self |-> 1,
                      value |-> value, day |-> day]
  /\ old' = Snapshot
  /\ UNCHANGED <<arrays, doctor>>

NextPatient == AddObservation

SpecPatient == InitPatient /\ [][NextPatient]_vars

(***************************************************************************)
(* The Doctor specification: one Doctor, the Patients the caller creates   *)
(* and the add_patient calls.                                              *)
(***************************************************************************)
InitDoctor ==
  /\ arrays = <<>>
  /\ people = <<>>
  /\ doctor = Doctor("Dr")
  /\ call = NoCall
  /\ old = Snapshot
  /\ outcome = ReturnNone

\* The caller constructs Patient(name).
NewPatient ==
  /\ Len(people) < MaxObjects
  /\ \E name \in Names :
       /\ people' = Append(people, Patient(name))
       /\ call' = [fn |-> "Patient", patient |-> Name(name)]
  /\ outcome' = Return(Len(people) + 1)
  /\ old' = Snapshot
  /\ UNCHANGED <<arrays, doctor>>

AddPatient(patient) ==
  /\ LET r == add_patient(people, doctor, patient)
     IN /\ people' = r.heap
        /\ doctor' = r.self
        /\ outcome' = r.outcome
  /\ call' = [fn |-> "add_patient", patient |-> patient]
  /\ old' = Snapshot
  /\ UNCHANGED arrays

AddPatientInstance == \E ref \in 1..Len(people) : AddPatient(Instance(ref))

AddPatientName ==
  /\ Len(people) < MaxObjects
  /\ \E name \in Names : AddPatient(Name(name))

NextDoctor == NewPatient \/ AddPatientInstance \/ AddPatientName

SpecDoctor == InitDoctor /\ [][NextDoctor]_vars

(***************************************************************************)
(* Properties of Patient.add_observation (checked under SpecPatient).      *)
(***************************************************************************)
Observed == call.fn = "add_observation"

\* C6: a call of add_observation without a day appends exactly one
\* Observation, whose day is 0 on a Patient without observations and otherwise
\* the day of the Observation appended last plus 1, and returns it.
C6_DefaultDayFollowsLast ==
  (Observed /\ call.day = <<>>)
    => LET before == old.people[call.self].observations
           after == people[call.self].observations
       IN /\ outcome.raised = "none"
          /\ Len(outcome.ret) = 1
          /\ after = Append(before, outcome.ret[1])
          /\ outcome.ret[1].value = call.value
          /\ outcome.ret[1].day =
               IF Len(before) = 0 THEN 0 ELSE before[Len(before)].day + 1

\* C6 witness: after explicit days 2 and then 0, the default day is 1 (the
\* last day plus 1, not the largest plus 1).
C6_Witness ==
  /\ Observed /\ call.day = <<>>
  /\ Len(old.people[1].observations) = 2
  /\ old.people[1].observations[1].day = 2
  /\ old.people[1].observations[2].day = 0
  /\ outcome.ret[1].day = 1
  /\ Len(people[1].observations) = 3

(***************************************************************************)
(* Properties of Doctor.add_patient (checked under SpecDoctor).            *)
(***************************************************************************)
Added == call.fn = "add_patient"

NoDuplicates(xs) == \A i, j \in 1..Len(xs) : xs[i] = xs[j] => i = j

\* C5: the Doctor's list never holds a Patient instance twice, and
\* add_patient with an instance that is already in the list changes nothing
\* and raises nothing.
C5_NoInstanceTwice ==
  /\ NoDuplicates(doctor.patients)
  /\ (Added /\ call.patient.type = "Patient"
        /\ \E i \in 1..Len(old.doctor.patients) :
             old.doctor.patients[i] = call.patient.ref)
       => /\ doctor = old.doctor
          /\ people = old.people
          /\ outcome.raised = "none"

\* C5 witness: add_patient was called with the instance that is first in a
\* list of two; the list is as before and the conflict was printed.
C5_Witness ==
  /\ Added /\ call.patient.type = "Patient"
  /\ Len(old.doctor.patients) = 2
  /\ old.doctor.patients[1] = call.patient.ref
  /\ doctor.patients = old.doctor.patients
  /\ outcome.printed /\ outcome.ret = <<>>

\* C10: add_patient with a bare name constructs a new Patient of that name,
\* appends it and returns it, whatever names the Patients in the list have.
C10_NameAlwaysAppends ==
  (Added /\ call.patient.type = "str")
    => /\ outcome.raised = "none"
       /\ Len(outcome.ret) = 1
       /\ outcome.ret[1] = Len(old.people) + 1
       /\ Len(people) = Len(old.people) + 1
       /\ people[outcome.ret[1]] = Patient(call.patient.str)
       /\ doctor.patients = Append(old.doctor.patients, outcome.ret[1])

\* C10 witness: the Doctor already held a Patient of the same name, and the
\* list grew by the new Patient.
C10_Witness ==
  /\ Added /\ call.patient.type = "str"
  /\ Len(old.doctor.patients) = 1
  /\ old.people[old.doctor.patients[1]].name = call.patient.str
  /\ Len(doctor.patients) = 2
  /\ people[doctor.patients[2]].name = call.patient.str
  /\ doctor.patients[1] # doctor.patients[2]

====
